---- MODULE Spec2Model ----
(***************************************************************************)
(* Verification model of the moses filesystem analysis tools               *)
(* (tools/exfat_compare.py, exfat_hexdump.py, ext4_hexdump.py,             *)
(* ext4_bg_compare.py, fat16_hexdump.py).                                  *)
(*                                                                         *)
(* The tools are independent programs, so the module holds one state       *)
(* machine per program part, each with its own specification:              *)
(*   SpecCk    the exFAT boot checksum loop and its verification           *)
(*   SpecRead  the ext4 Byte Source: read_at / read_sequential and cache   *)
(*   SpecExt4  ext4 deep analysis of one device, or of two (compare_deep)  *)
(*   SpecBgc   ext4 block group listing (ext4_bg_compare.py)               *)
(*   SpecFat16 the FAT16 boot sector, FAT and root directory analysis      *)
(*   SpecExfat the exFAT comparison of two devices (compare_devices)       *)
(***************************************************************************)
EXTENDS Integers, Sequences, FiniteSets, TLC

VARIABLES
    ck,     \* the exFAT checksum loop: inputs, loop index, accumulators, results
    bs,     \* the ext4 byte sources: media, analyzers' mode and cache, last call
    ex,     \* ext4 deep analysis / comparison: devices, analyzers, report
    bgc,    \* ext4_bg_compare: device, decoded superblock values, rows printed
    fd,     \* FAT16 analysis: boot sector, root directory slots, output
    xf      \* exFAT comparison: the two devices, decoded fields, output

vars == <<ck, bs, ex, bgc, fd, xf>>

\* The value a part's variable holds while another part's specification runs.
Idle == [pc |-> "idle"]

\* The variables the checksum loop / the byte sources leave alone.
CkOthers == <<bs, ex, bgc, fd, xf>>

BsOthers == <<ck, ex, bgc, fd, xf>>

ExOthers == <<ck, bs, bgc, fd, xf>>

BgcOthers == <<ck, bs, ex, fd, xf>>

FdOthers == <<ck, bs, ex, bgc, xf>>

XfOthers == <<ck, bs, ex, bgc, fd>>

Min(a, b) == IF a < b THEN a ELSE b

Max(a, b) == IF a > b THEN a ELSE b

(***************************************************************************)
(* Unsigned integers wider than 31 bits.  Python integers are unbounded;   *)
(* the checksum accumulator reaches values above 2^32.  A value v is held  *)
(* as <<hi, lo>> with v = hi * 2^16 + lo and 0 <= lo < 2^16.               *)
(***************************************************************************)
W16 == 256 * 256

Wide(hi, lo) == <<hi, lo>>

WideZero == Wide(0, 0)

\* v & 1
WideOdd(v) == v[2] % 2 = 1

\* v >> 1
WideShr1(v) == Wide(v[1] \div 2, (v[1] % 2) * (W16 \div 2) + (v[2] \div 2))

\* v + n, for 0 <= n < 2^16
WideAdd(v, n) == Wide(v[1] + ((v[2] + n) \div W16), (v[2] + n) % W16)

\* v + 0x80000000
WideAddTopBit(v) == Wide(v[1] + (W16 \div 2), v[2])

\* v & 0xFFFFFFFF
WideMask32(v) == Wide(v[1] % W16, v[2])

\* struct.pack('<I', v): the four little-endian bytes of a 32-bit value
PackLE32(v) == <<v[2] % 256, v[2] \div 256, v[1] % 256, (v[1] \div 256) % 256>>

\* struct.unpack('<I', b)[0]
UnpackLE32(b) == Wide(b[3] + 256 * b[4], b[1] + 256 * b[2])

(***************************************************************************)
(* exFAT boot checksum: exfat_compare.py calculate_checksum and            *)
(* exfat_hexdump.py analyze_checksum (the same loop, written twice).       *)
(***************************************************************************)

\* Bound: length of the longest boot region the model feeds the loop.
MaxLen == 114

\* Byte values the regions are built from.
ByteVals == {0, 1, 255}

\* Region lengths: empty, one short of the first excluded offset's reach, full.
RegionLens == {0, 40, MaxLen}

\* Offsets the loop skips: VolumeFlags (106, 107) and PercentInUse (112).
ExcludedMissing112 == {106, 107}

ExcludedOffsets == {106, 107, 112}

\* Region A: bytes alternate between f1 (even offsets) and f2 (odd offsets).
RegionA(c, i) == IF i % 2 = 0 THEN c.f1 ELSE c.f2

\* Region B: region A with the bytes at the offsets in c.diff replaced by c.valB.
RegionB(c, i) == IF i \in c.diff THEN c.valB ELSE RegionA(c, i)

\* The offsets of the VolumeFlags and PercentInUse fields of the boot sector
\* (parse_boot_sector: data[106:108], data[112]).
VolumeFlagsAndPercentInUse == {106, 107, 112}

\* The sets of offsets at which region B may differ from region A: one single
\* offset anywhere, or any subset of the VolumeFlags / PercentInUse offsets.
DiffSets(len) ==
    {{p} : p \in 0..(len - 1)}
        \cup {d \in SUBSET VolumeFlagsAndPercentInUse : \A p \in d : p < len}

\* One accumulating iteration of the loop (lines 57-60): the accumulator is
\* NOT masked here.
ChecksumStepDropsByte(acc, byte) ==
    IF WideOdd(acc) THEN WideAddTopBit(WideShr1(acc)) ELSE WideAdd(WideShr1(acc), byte)

\* an iteration that sets the top bit without shifting the accumulator first
ChecksumStepWithoutShift(acc, byte) ==
    IF WideOdd(acc)
    THEN WideAdd(WideAddTopBit(acc), byte)
    ELSE WideAdd(WideShr1(acc), byte)

ChecksumStep(acc, byte) ==
    IF WideOdd(acc)
    THEN WideAdd(WideAddTopBit(WideShr1(acc)), byte)
    ELSE WideAdd(WideShr1(acc), byte)

\* return checksum & 0xFFFFFFFF
ChecksumResult(acc) == WideMask32(acc)

CkInit ==
    /\ bs = Idle /\ ex = Idle /\ bgc = Idle /\ fd = Idle /\ xf = Idle
    /\ \E len \in RegionLens, f1 \in ByteVals, f2 \in ByteVals, v \in ByteVals :
      \E d \in DiffSets(len) :
        /\ v # f1 /\ v # f2
        /\ ck = [len |-> len, f1 |-> f1, f2 |-> f2, diff |-> d, valB |-> v,
                 pc |-> "loop", i |-> 0, accA |-> WideZero, accB |-> WideZero,
                 calcA |-> WideZero, calcB |-> WideZero,
                 sector11 |-> <<0, 0, 0, 0>>, matchA |-> FALSE, matchB |-> FALSE]

\* for i, byte in enumerate(sectors_data): if i == 106 or i == 107 or i == 112: continue
CkSkip ==
    /\ ck.pc = "loop" /\ ck.i < ck.len /\ ck.i \in ExcludedOffsets
    /\ ck' = [ck EXCEPT !.i = @ + 1]
    /\ UNCHANGED CkOthers

\* the rotate-right-and-add body, run on region A and on region B in lockstep
CkAccumulate ==
    /\ ck.pc = "loop" /\ ck.i < ck.len /\ ck.i \notin ExcludedOffsets
    /\ ck' = [ck EXCEPT !.i = @ + 1,
                        !.accA = ChecksumStep(@, RegionA(ck, ck.i)),
                        !.accB = ChecksumStep(@, RegionB(ck, ck.i))]
    /\ UNCHANGED CkOthers

\* return checksum & 0xFFFFFFFF
CkReturn ==
    /\ ck.pc = "loop" /\ ck.i = ck.len
    /\ ck' = [ck EXCEPT !.pc = "calculated",
                        !.calcA = ChecksumResult(ck.accA),
                        !.calcB = ChecksumResult(ck.accB)]
    /\ UNCHANGED CkOthers

\* compare_devices lines 164-174 / analyze_checksum lines 89-94: the first four
\* bytes of sector 11 are decoded and compared with the calculated value.  The
\* sector content is an input: written by a formatter that ran this algorithm on
\* region A or on region B, or zero-filled.
CkVerify ==
    /\ ck.pc = "calculated"
    /\ \E s \in {PackLE32(ck.calcA), PackLE32(ck.calcB), <<0, 0, 0, 0>>} :
         ck' = [ck EXCEPT !.pc = "verified",
                          !.sector11 = s,
                          !.matchA = (UnpackLE32(s) = ck.calcA),
                          !.matchB = (UnpackLE32(s) = ck.calcB)]
    /\ UNCHANGED CkOthers

CkNext == CkSkip \/ CkAccumulate \/ CkReturn \/ CkVerify

SpecCk == CkInit /\ [][CkNext]_vars

(***************************************************************************)
(* Byte Source: ext4_hexdump.py Ext4DeepAnalyzer.read_at / read_sequential *)
(* and ext4_bg_compare.py read_sequential.                                 *)
(*                                                                         *)
(* A medium is a file of mlen bytes.  Bytes read from it are held by       *)
(* provenance, [med, off, len]: the len bytes of medium med from offset    *)
(* off; every empty byte string is the one value EmptyBytes.               *)
(***************************************************************************)

\* Bound: number of read calls in one behaviour.
MaxReads == 2

\* chunk_size = 65536 (64KB chunks)
ChunkSize == 65536

\* if size <= 4096: self.cache[cache_key] = data
CacheLimit == 4096

\* analyzer1 / analyzer2 of compare_deep, each over its own open file
Analyzers == {"A", "B"}

\* Sizes of the media, offsets and sizes of the reads the model issues.
MediumLens == {1040, 65536, 140032}

ReadOffsets == {0, 1024, 65536, 140000}

ReadSizes == {32, 4096, 4097}

EmptyBytes == [med |-> "none", off |-> 0, len |-> 0]

Bytes(med, off, n) == IF n <= 0 THEN EmptyBytes ELSE [med |-> med, off |-> off, len |-> n]

\* file.read(n) with the file position at pos: the bytes that are there, at most n
FileRead(med, mlen, pos, n) == Bytes(med, pos, Min(n, mlen - pos))

\* a seeking read that gives nothing when the medium ends inside the request
SeekReadNothingPastEnd(med, mlen, offset, size) ==
    IF offset + size > mlen THEN EmptyBytes ELSE FileRead(med, mlen, offset, size)

\* read_at, not a Windows device: self.file.seek(offset); return self.file.read(size)
SeekRead(med, mlen, offset, size) == FileRead(med, mlen, offset, size)

RECURSIVE SkipLoopWholeChunks(_, _, _, _)
\* a discard loop that asks for a whole chunk in every round
SkipLoopWholeChunks(mlen, pos, bytes_to_skip, discards) ==
    IF bytes_to_skip > 0
    THEN LET skip_size == ChunkSize
             skipped   == Min(skip_size, Max(0, mlen - pos))
         IN  IF skipped < skip_size
             THEN [reached |-> FALSE, pos |-> pos + skipped,
                   discards |-> Append(discards, skip_size)]
             ELSE SkipLoopWholeChunks(mlen, pos + skip_size,
                                      bytes_to_skip - skip_size,
                                      Append(discards, skip_size))
    ELSE [reached |-> TRUE, pos |-> pos, discards |-> discards]

RECURSIVE SkipLoop(_, _, _, _)
\* while bytes_to_skip > 0: read min(chunk_size, bytes_to_skip) bytes and drop
\* them; a short discard read ends the loop (IOError / return b'').
\* discards: the sizes asked of the discard reads, in order.
SkipLoop(mlen, pos, bytes_to_skip, discards) ==
    IF bytes_to_skip > 0
    THEN LET skip_size == Min(ChunkSize, bytes_to_skip)
             skipped   == Min(skip_size, Max(0, mlen - pos))
         IN  IF skipped < skip_size
             THEN [reached |-> FALSE, pos |-> pos + skipped,
                   discards |-> Append(discards, skip_size)]
             ELSE SkipLoop(mlen, pos + skip_size, bytes_to_skip - skip_size,
                           Append(discards, skip_size))
    ELSE [reached |-> TRUE, pos |-> pos, discards |-> discards]

\* cache[key] = data
CachePut(cache, key, data) ==
    [k \in (DOMAIN cache) \cup {key} |-> IF k = key THEN data ELSE cache[k]]

\* a store that keeps the result of a read of any size
CacheStoreAlways(cache, key, data, size) == CachePut(cache, key, data)

\* if size <= 4096: self.cache[cache_key] = data
CacheStore(cache, key, data, size) ==
    IF size <= CacheLimit THEN CachePut(cache, key, data) ELSE cache

\* Ext4DeepAnalyzer.read_sequential(offset, size) on an analyzer with the given
\* cache over medium med: the call record and the cache afterwards.
\* seeks: calls of file.seek(0); reads: calls of file.read.
ReadSequential(med, mlen, cache, offset, size) ==
    LET key == <<offset, size>> IN
    IF key \in DOMAIN cache
    THEN [outcome |-> "returned", data |-> cache[key], cacheHit |-> TRUE,
          seeks |-> 0, reads |-> 0, discards |-> <<>>, reached |-> TRUE,
          cache |-> cache]
    ELSE LET sk == SkipLoop(mlen, 0, offset, <<>>) IN
         IF ~sk.reached
         THEN \* raise IOError(...); except Exception: return b''
              [outcome |-> "returned", data |-> EmptyBytes, cacheHit |-> FALSE,
               seeks |-> 1, reads |-> Len(sk.discards), discards |-> sk.discards,
               reached |-> FALSE, cache |-> cache]
         ELSE LET data == FileRead(med, mlen, sk.pos, size) IN
              [outcome |-> "returned", data |-> data, cacheHit |-> FALSE,
               seeks |-> 1, reads |-> Len(sk.discards) + 1, discards |-> sk.discards,
               reached |-> TRUE, cache |-> CacheStore(cache, key, data, size)]

\* Ext4DeepAnalyzer.read_at(offset, size).  On a plain file seek and read raise
\* nothing, so the except OSError branch of the seeking mode is never entered.
ReadAt(windows, med, mlen, cache, offset, size) ==
    IF windows
    THEN ReadSequential(med, mlen, cache, offset, size)
    ELSE [outcome |-> "returned", data |-> SeekRead(med, mlen, offset, size),
          cacheHit |-> FALSE, seeks |-> 1, reads |-> 1, discards |-> <<>>,
          reached |-> TRUE, cache |-> cache]

\* ext4_bg_compare.py read_sequential(f, offset, size): no cache, b'' when the
\* offset cannot be reached, else whatever f.read(size) gives.
BgReadSequential(med, mlen, offset, size) ==
    LET sk == SkipLoop(mlen, 0, offset, <<>>) IN
    IF ~sk.reached
    THEN [outcome |-> "returned", data |-> EmptyBytes, cacheHit |-> FALSE,
          seeks |-> 1, reads |-> Len(sk.discards), discards |-> sk.discards,
          reached |-> FALSE]
    ELSE [outcome |-> "returned", data |-> FileRead(med, mlen, sk.pos, size),
          cacheHit |-> FALSE, seeks |-> 1, reads |-> Len(sk.discards) + 1,
          discards |-> sk.discards, reached |-> TRUE]

NoCall == [fn |-> "none", an |-> "none", offset |-> 0, size |-> 0,
           outcome |-> "none", data |-> EmptyBytes, cacheHit |-> FALSE,
           seeks |-> 0, reads |-> 0, discards |-> <<>>, reached |-> FALSE]

\* Ext4DeepAnalyzer.__init__: self.cache = {}; is_windows_device from the
\* platform and the file name.  Analyzer A is opened in either mode over a
\* medium of any of the sizes; analyzer B is a Windows raw device (sequential
\* mode) over the largest medium.
BsInit ==
    /\ ck = Idle /\ ex = Idle /\ bgc = Idle /\ fd = Idle /\ xf = Idle
    /\ \E mlen \in [Analyzers -> MediumLens], win \in [Analyzers -> BOOLEAN] :
         /\ win["B"] /\ \A l \in MediumLens : l <= mlen["B"]
         /\ bs = [pc |-> "open", mlen |-> mlen, windows |-> win,
               cache |-> [a \in Analyzers |-> << >>],
               n |-> 0, last |-> NoCall]

\* read_at on analyzers that keep one cache dictionary between them
BsReadAtSharedCache ==
    /\ bs.pc = "open" /\ bs.n < MaxReads
    /\ \E a \in Analyzers, offset \in ReadOffsets, size \in ReadSizes :
         LET r == ReadAt(bs.windows[a], a, bs.mlen[a], bs.cache[a], offset, size) IN
         bs' = [bs EXCEPT !.n = @ + 1,
                          !.cache = [b \in Analyzers |-> r.cache],
                          !.last = [fn |-> "read_at", an |-> a, offset |-> offset,
                                    size |-> size, outcome |-> r.outcome,
                                    data |-> r.data, cacheHit |-> r.cacheHit,
                                    seeks |-> r.seeks, reads |-> r.reads,
                                    discards |-> r.discards, reached |-> r.reached]]
    /\ UNCHANGED BsOthers

\* one call of analyzer.read_at(offset, size)
BsReadAt ==
    /\ bs.pc = "open" /\ bs.n < MaxReads
    /\ \E a \in Analyzers, offset \in ReadOffsets, size \in ReadSizes :
         LET r == ReadAt(bs.windows[a], a, bs.mlen[a], bs.cache[a], offset, size) IN
         bs' = [bs EXCEPT !.n = @ + 1,
                          !.cache[a] = r.cache,
                          !.last = [fn |-> "read_at", an |-> a, offset |-> offset,
                                    size |-> size, outcome |-> r.outcome,
                                    data |-> r.data, cacheHit |-> r.cacheHit,
                                    seeks |-> r.seeks, reads |-> r.reads,
                                    discards |-> r.discards, reached |-> r.reached]]
    /\ UNCHANGED BsOthers

\* one call of ext4_bg_compare.read_sequential(f, offset, size) on a medium
BsBgReadSequential ==
    /\ bs.pc = "open" /\ bs.n < MaxReads
    /\ \E a \in Analyzers, offset \in ReadOffsets, size \in ReadSizes :
         LET r == BgReadSequential(a, bs.mlen[a], offset, size) IN
         bs' = [bs EXCEPT !.n = @ + 1,
                          !.last = [fn |-> "bg_read_sequential", an |-> a,
                                    offset |-> offset, size |-> size,
                                    outcome |-> r.outcome, data |-> r.data,
                                    cacheHit |-> r.cacheHit, seeks |-> r.seeks,
                                    reads |-> r.reads, discards |-> r.discards,
                                    reached |-> r.reached]]
    /\ UNCHANGED BsOthers

BsNext == BsReadAt \/ BsBgReadSequential

SpecRead == BsInit /\ [][BsNext]_vars

(***************************************************************************)
(* ext4 deep analysis: ext4_hexdump.py Ext4DeepAnalyzer and compare_deep.  *)
(*                                                                         *)
(* A device is given by its size, the way it is opened, and the values of  *)
(* the on-disk fields the analyzer decodes: the superblock at byte 1024,   *)
(* the group descriptors, and the inode the root-inode check reads.        *)
(***************************************************************************)

\* Bound: a device of the model is the well-formed device BaseDevice with the
\* values of at most this many fields changed (over both sides of a comparison).
MaxDeviations == 2

\* A freshly formatted, cleanly unmounted 8 MiB ext4 volume with 1 KiB blocks,
\* one block group, a journal, and 32-byte group descriptors, opened as a plain
\* file.  bad_group is the index of the group whose descriptor holds the bg_*
\* values of the record; the other groups hold the bg_* values of BaseDevice.
BaseDevice ==
    [mlen |-> 8388608, windows |-> FALSE,
     s_blocks_count_lo |-> 8192, s_log_block_size |-> 0,
     s_blocks_per_group |-> 8192, s_inodes_per_group |-> 2048,
     s_mtime |-> 1000, s_magic |-> 61267, s_state |-> 1, s_rev_level |-> 1,
     s_inode_size |-> 256, s_feature_compat |-> 4, s_feature_incompat |-> 0,
     s_feature_ro_compat |-> 0, s_journal_inum |-> 8, s_last_orphan |-> 0,
     s_desc_size |-> 0, s_blocks_count_hi |-> 0, s_error_count |-> 0,
     s_first_error_time |-> 0, s_first_error_func |-> "",
     s_last_error_time |-> 0,
     bad_group |-> 0, bg_block_bitmap_lo |-> 3, bg_inode_bitmap_lo |-> 4,
     bg_inode_table_lo |-> 5, bg_checksum |-> 4321,
     i_mode |-> 16877, i_links_count |-> 2]

\* The field values a device may hold instead of BaseDevice's.
Deviations ==
    {<<"mlen", 1280>>, <<"mlen", 2064>>, <<"mlen", 5376>>, <<"mlen", 5400>>,
     <<"windows", TRUE>>, <<"s_blocks_count_lo", 57344>>,
     <<"s_log_block_size", 2>>,
     <<"s_blocks_per_group", 0>>, <<"s_inodes_per_group", 0>>,
     <<"s_mtime", 2000>>, <<"s_magic", 0>>, <<"s_state", 2>>,
     <<"s_rev_level", 0>>, <<"s_inode_size", 32>>,
     <<"s_feature_compat", 0>>, <<"s_feature_incompat", 4>>,
     <<"s_feature_incompat", 128>>, <<"s_feature_ro_compat", 16>>,
     <<"s_journal_inum", 0>>, <<"s_last_orphan", 12>>,
     <<"s_desc_size", 64>>, <<"s_desc_size", 16>>, <<"s_desc_size", 128>>,
     <<"s_error_count", 3>>, <<"s_first_error_time", 100>>,
     <<"s_first_error_func", "ext4_lookup">>, <<"s_last_error_time", 200>>,
     <<"bad_group", 4>>, <<"bad_group", 5>>, <<"bg_block_bitmap_lo", 0>>,
     <<"bg_inode_bitmap_lo", 0>>, <<"bg_inode_table_lo", 0>>,
     <<"bg_checksum", 0>>,
     <<"i_mode", 33261>>, <<"i_mode", 16384>>, <<"i_mode", 32768>>, <<"i_links_count", 1>>}

\* The deviations tried on the second device of a comparison.
DeviationsB ==
    {<<"mlen", 1280>>, <<"windows", TRUE>>, <<"s_inodes_per_group", 0>>,
     <<"s_mtime", 2000>>, <<"s_magic", 0>>, <<"s_state", 2>>}

\* A deviation together with the device it is applied to.
TaggedDeviations == ({"A"} \X Deviations) \cup ({"B"} \X DeviationsB)

RECURSIVE SubsetsUpTo(_, _)
\* the subsets of S with at most k elements
SubsetsUpTo(S, k) ==
    IF k <= 0 THEN {{}}
    ELSE LET P == SubsetsUpTo(S, k - 1) IN P \cup {p \cup {x} : p \in P, x \in S}

\* A set of deviations that changes no field twice.
Consistent(D) == \A d \in D, e \in D : d[1] = e[1] => d = e

\* BaseDevice with the deviations D applied.
DeviceWith(D) ==
    [f \in DOMAIN BaseDevice |->
        IF \E d \in D : d[1] = f THEN (CHOOSE d \in D : d[1] = f)[2]
        ELSE BaseDevice[f]]

\* v & mask != 0, for a mask of one bit
HasBit(v, mask) == (v \div mask) % 2 = 1

\* Fields of the superblock decoded for every revision (offsets 0x00 - 0x10B).
BasicSbFields ==
    {"s_blocks_count_lo", "s_log_block_size", "s_blocks_per_group",
     "s_inodes_per_group", "s_mtime", "s_magic", "s_state", "s_rev_level",
     "s_inode_size", "s_feature_compat", "s_feature_incompat",
     "s_feature_ro_compat", "s_journal_inum", "s_last_orphan", "s_desc_size"}

\* Fields decoded only if s_rev_level >= 1 and len(data) >= 0x200 (0x150 - 0x1FF).
ExtendedSbFields ==
    {"s_blocks_count_hi", "s_error_count", "s_first_error_time",
     "s_first_error_func", "s_last_error_time"}

\* parse_superblock on the bytes `data` read at offset 1024 of device dev.
\* struct.unpack_from raises struct.error when the buffer ends before the field.
ExtendedPresent(dev, data) == dev.s_rev_level >= 1 /\ data.len >= 512

ParseSuperblock(dev, data) ==
    IF data.len < 268
    THEN [ok |-> FALSE, exc |-> "struct.error", sb |-> << >>]
    ELSE LET ext == ExtendedPresent(dev, data)
             csum == ext /\ HasBit(dev.s_feature_ro_compat, 1024)
             keys == BasicSbFields
                       \cup (IF ext THEN ExtendedSbFields ELSE {})
                       \cup (IF csum THEN {"s_checksum"} ELSE {})
                       \cup {"block_size", "blocks_count"}
         IN  IF csum /\ data.len < 1024
             THEN [ok |-> FALSE, exc |-> "struct.error", sb |-> << >>]
             ELSE [ok |-> TRUE, exc |-> "none",
                   sb |-> [k \in keys |->
                             CASE k = "block_size" -> 1024 * (2 ^ dev.s_log_block_size)
                               [] k = "blocks_count" ->
                                    \* lo | (hi << 32); the model keeps hi = 0
                                    dev.s_blocks_count_lo
                               [] k = "s_checksum" -> 0
                               [] OTHER -> dev[k]]]

\* The descriptor content the device holds for group bg_num.
DescriptorOf(dev, bg_num) ==
    IF bg_num = dev.bad_group
    THEN [bg_block_bitmap_lo |-> dev.bg_block_bitmap_lo,
          bg_inode_bitmap_lo |-> dev.bg_inode_bitmap_lo,
          bg_inode_table_lo |-> dev.bg_inode_table_lo,
          bg_checksum |-> dev.bg_checksum]
    ELSE [bg_block_bitmap_lo |-> BaseDevice.bg_block_bitmap_lo,
          bg_inode_bitmap_lo |-> BaseDevice.bg_inode_bitmap_lo,
          bg_inode_table_lo |-> BaseDevice.bg_inode_table_lo,
          bg_checksum |-> BaseDevice.bg_checksum]

\* desc_size = self.sb.get('s_desc_size', 32); if desc_size == 0: desc_size = 32
DescSize(sb) == IF sb["s_desc_size"] = 0 THEN 32 ELSE sb["s_desc_size"]

\* offset = desc_block * self.block_size + bg_num * desc_size
DescOffset(sb, block_size, bg_num) ==
    (IF block_size = 1024 THEN 2 ELSE 1) * block_size + bg_num * DescSize(sb)

\* parse_block_group_descriptor(bg_num) of analyzer a (an analyzer record) over
\* device dev: the read, then the decoding of the fields; the 64-bit fields
\* (0x20 - 0x3B) are decoded when desc_size >= 64.
ParseBlockGroupDescriptor(med, dev, a, bg_num) ==
    LET size == DescSize(a.sb)
        offset == DescOffset(a.sb, a.block_size, bg_num)
        r == ReadAt(a.windows, med, dev.mlen, a.cache, offset, size)
        need == IF size >= 64 THEN 60 ELSE 32
    IN  [ok |-> r.data.len >= need,
         exc |-> IF r.data.len >= need THEN "none" ELSE "struct.error",
         bg |-> DescriptorOf(dev, bg_num),
         cache |-> r.cache,
         read |-> <<"group_descriptor", offset, size, r.data.len>>]

\* check_inode returned None
NoInode == [present |-> FALSE, i_mode |-> 0, i_links_count |-> 0]

\* check_inode(inode_num) after the group descriptor is parsed: the inode read
\* and decode.  inode |-> NoInode when the read was empty or short.
ReadInode(med, dev, a, bg, cache, local_inode) ==
    LET inode_size == a.sb["s_inode_size"]
        \* bg_inode_table_lo | (bg_inode_table_hi << 32); the model keeps hi = 0
        offset == bg.bg_inode_table_lo * a.block_size + local_inode * inode_size
        r == ReadAt(a.windows, med, dev.mlen, cache, offset, inode_size)
        rd == <<"inode", offset, inode_size, r.data.len>>
    IN  IF r.data.len = 0 \/ r.data.len < inode_size
        THEN [ok |-> TRUE, exc |-> "none", inode |-> NoInode, cache |-> r.cache,
              read |-> rd]
        ELSE IF r.data.len < 36
        THEN [ok |-> FALSE, exc |-> "struct.error", inode |-> NoInode,
              cache |-> r.cache, read |-> rd]
        ELSE [ok |-> TRUE, exc |-> "none",
              inode |-> [present |-> TRUE, i_mode |-> dev.i_mode,
                         i_links_count |-> dev.i_links_count],
              cache |-> r.cache, read |-> rd]

\* check_inode(inode_num): block group and index of the inode, the descriptor,
\* the inode.  reads: the reads made, in order.
CheckInode(med, dev, a, inode_num) ==
    LET ipg == a.sb["s_inodes_per_group"] IN
    IF ipg = 0
    THEN [ok |-> FALSE, exc |-> "ZeroDivisionError", inode |-> NoInode,
          cache |-> a.cache, reads |-> << >>]
    ELSE LET bg_num == (inode_num - 1) \div ipg
             local_inode == (inode_num - 1) % ipg
             d == ParseBlockGroupDescriptor(med, dev, a, bg_num)
         IN  IF ~d.ok
             THEN [ok |-> FALSE, exc |-> d.exc, inode |-> NoInode,
                   cache |-> d.cache, reads |-> <<d.read>>]
             ELSE LET i == ReadInode(med, dev, a, d.bg, d.cache, local_inode)
                  IN  [ok |-> i.ok, exc |-> i.exc, inode |-> i.inode,
                       cache |-> i.cache, reads |-> <<d.read, i.read>>]

\* a check_root_inode that returns at the first condition that fails
RootInodeIssuesFirstOnly(inode) ==
    IF ~inode.present THEN <<<<"cannot_read_root_inode">>>>
    ELSE IF (inode.i_mode \div 4096) % 16 # 4
         THEN <<<<"root_not_directory", inode.i_mode>>>>
         ELSE IF inode.i_mode % 512 = 0
              THEN <<<<"root_no_permissions">>>>
              ELSE IF inode.i_links_count < 2
                   THEN <<<<"root_links_too_low", inode.i_links_count>>>>
                   ELSE << >>

\* the issue list of check_root_inode for the inode check_inode(2) returned
RootInodeIssues(inode) ==
    IF ~inode.present THEN <<<<"cannot_read_root_inode">>>>
    ELSE (IF (inode.i_mode \div 4096) % 16 # 4
          THEN <<<<"root_not_directory", inode.i_mode>>>> ELSE << >>)
      \o (IF inode.i_mode % 512 = 0
          THEN <<<<"root_no_permissions">>>> ELSE << >>)
      \o (IF inode.i_links_count < 2
          THEN <<<<"root_links_too_low", inode.i_links_count>>>> ELSE << >>)

\* check_orphan_list
OrphanIssues(sb) ==
    IF sb["s_last_orphan"] # 0
    THEN <<<<"orphan_list_not_empty", sb["s_last_orphan"]>>>> ELSE << >>

\* check_error_state: everything is appended to the one list it returns
ErrorStateIssues(sb) ==
    IF "s_error_count" \in DOMAIN sb /\ sb["s_error_count"] > 0
    THEN <<<<"recorded_errors", sb["s_error_count"]>>>>
      \o (IF sb["s_first_error_time"] > 0
          THEN <<<<"first_error_at", sb["s_first_error_time"]>>>>
                 \o (IF sb["s_first_error_func"] # ""
                     THEN <<<<"first_error_function", sb["s_first_error_func"]>>>>
                     ELSE << >>)
          ELSE << >>)
      \o (IF sb["s_last_error_time"] > 0
          THEN <<<<"last_error_at", sb["s_last_error_time"]>>>> ELSE << >>)
    ELSE << >>

\* verify_block_group_checksum: True when GDT_CSUM is off, else whether the
\* stored checksum is non-zero
VerifyBlockGroupChecksum(sb, bg) ==
    IF ~HasBit(sb["s_feature_ro_compat"], 16) THEN TRUE ELSE bg.bg_checksum # 0

\* findings of a loop iteration that asks for a checksum whatever the features
BlockGroupIssuesChecksumAlways(sb, bg_num, bg) ==
    (IF bg.bg_block_bitmap_lo = 0 THEN <<<<"bg_block_bitmap_zero", bg_num>>>> ELSE << >>)
      \o (IF bg.bg_checksum = 0
          THEN <<<<"bg_missing_checksum", bg_num>>>> ELSE << >>)

\* the findings of one iteration of the loop of check_block_groups
BlockGroupIssues(sb, bg_num, bg) ==
    (IF bg.bg_block_bitmap_lo = 0 THEN <<<<"bg_block_bitmap_zero", bg_num>>>> ELSE << >>)
      \o (IF bg.bg_inode_bitmap_lo = 0
          THEN <<<<"bg_inode_bitmap_zero", bg_num>>>> ELSE << >>)
      \o (IF bg.bg_inode_table_lo = 0
          THEN <<<<"bg_inode_table_zero", bg_num>>>> ELSE << >>)
      \o (IF HasBit(sb["s_feature_ro_compat"], 16) /\ bg.bg_checksum = 0
          THEN <<<<"bg_missing_checksum", bg_num>>>> ELSE << >>)

\* analyze lines 427-432: the journal checks
JournalIssues(sb) ==
    IF HasBit(sb["s_feature_compat"], 4)
    THEN IF sb["s_journal_inum"] = 0 THEN <<<<"journal_inode_zero">>>>
         ELSE IF HasBit(sb["s_feature_incompat"], 4)
         THEN <<<<"journal_needs_recovery">>>> ELSE << >>
    ELSE << >>

\* analyze lines 434-437
Warnings64Bit(sb) ==
    IF HasBit(sb["s_feature_incompat"], 128) /\ "s_blocks_count_hi" \notin DOMAIN sb
    THEN <<<<"64bit_without_high_bits">>>> ELSE << >>

\* (blocks_count + s_blocks_per_group - 1) // s_blocks_per_group
NumGroups(sb) ==
    (sb["blocks_count"] + sb["s_blocks_per_group"] - 1) \div sb["s_blocks_per_group"]

\* range(min(num_groups, 5)): check first 5 block groups
GroupsToCheck(num_groups) == Min(num_groups, 5)

\* The two devices of compare_deep: file1_path (A) and file2_path (B).
Sides == {"A", "B"}

\* The device pairs analysed: at most MaxDeviations deviations over both.
DeviationSets == SubsetsUpTo(TaggedDeviations, MaxDeviations)

\* Ext4DeepAnalyzer.__init__ and the empty result of analyze
NewAnalyzer(dev) ==
    [pc |-> "start", windows |-> dev.windows, cache |-> << >>,
     sb |-> << >>, block_size |-> 0,
     issues |-> << >>, warnings |-> << >>, info |-> << >>,
     reads |-> << >>, num_groups |-> 0, bg_num |-> 0, exc |-> "none"]

\* main with one device (mode "single", side A only) or compare_deep with two.
ExInit ==
    /\ ck = Idle /\ bs = Idle /\ bgc = Idle /\ fd = Idle /\ xf = Idle
    /\ \E mode \in {"single", "compare"} :
       \E T \in DeviationSets :
       LET DA == {t[2] : t \in {u \in T : u[1] = "A"}}
           DB == {t[2] : t \in {u \in T : u[1] = "B"}}
       IN
         /\ Consistent(DA) /\ Consistent(DB)
         /\ mode = "single" => DB = {}
         /\ ex = [pc |-> "analyzing", mode |-> mode,
                  dev |-> [s \in Sides |-> DeviceWith(IF s = "A" THEN DA ELSE DB)],
                  an |-> [s \in Sides |->
                            NewAnalyzer(DeviceWith(IF s = "A" THEN DA ELSE DB))],
                  printed |-> << >>, diff |-> << >>, summary |-> "none",
                  exc |-> "none"]

\* result1 = analyzer1.analyze() runs to its end before result2 = analyzer2.analyze()
Turn(s) ==
    /\ ex.pc = "analyzing"
    /\ \/ s = "A"
       \/ s = "B" /\ ex.mode = "compare" /\ ex.an["A"].pc = "returned"

\* an exception leaves analyze and, uncaught, compare_deep / main
Raise(s, exc, cache, reads) ==
    ex' = [ex EXCEPT !.pc = "aborted", !.exc = exc,
                     !.an[s].pc = "raised", !.an[s].exc = exc,
                     !.an[s].cache = cache,
                     !.an[s].reads = @ \o reads]

\* a magic test that accepts every superblock
MagicNeverInvalid(sb) == FALSE

\* analyze line 403: if self.sb['s_magic'] != 0xEF53
InvalidMagic(sb) == sb["s_magic"] # 61267

\* analyze lines 397-405: parse the primary superblock, check the magic
ExParseSuperblock ==
    /\ \E s \in Sides :
         /\ Turn(s) /\ ex.an[s].pc = "start"
         /\ LET a == ex.an[s]
                dev == ex.dev[s]
                r == ReadAt(a.windows, s, dev.mlen, a.cache, 1024, 1024)
                p == ParseSuperblock(dev, r.data)
                rd == <<<<"superblock", 1024, 1024, r.data.len>>>>
            IN  IF ~p.ok THEN Raise(s, p.exc, r.cache, rd)
                ELSE ex' = [ex EXCEPT
                       !.an[s].cache = r.cache,
                       !.an[s].reads = @ \o rd,
                       !.an[s].sb = p.sb,
                       !.an[s].block_size = p.sb["block_size"],
                       !.an[s].issues =
                           IF InvalidMagic(p.sb)
                           THEN <<<<"invalid_magic", p.sb["s_magic"]>>>> ELSE << >>,
                       !.an[s].pc =
                           IF InvalidMagic(p.sb) THEN "returned" ELSE "sb_checks"]
    /\ UNCHANGED ExOthers

\* analyze lines 407-417: state flag, orphan list, recorded errors
ExSuperblockChecks ==
    /\ \E s \in Sides :
         /\ Turn(s) /\ ex.an[s].pc = "sb_checks"
         /\ LET sb == ex.an[s].sb IN
            ex' = [ex EXCEPT
                     !.an[s].issues =
                         @ \o (IF sb["s_state"] # 1
                               THEN <<<<"not_cleanly_unmounted", sb["s_state"]>>>>
                               ELSE << >>)
                           \o OrphanIssues(sb) \o ErrorStateIssues(sb),
                     !.an[s].pc = "root_inode"]
    /\ UNCHANGED ExOthers

\* analyze lines 419-421: check_root_inode, which reads inode 2
ExCheckRootInode ==
    /\ \E s \in Sides :
         /\ Turn(s) /\ ex.an[s].pc = "root_inode"
         /\ LET c == CheckInode(s, ex.dev[s], ex.an[s], 2) IN
            IF ~c.ok THEN Raise(s, c.exc, c.cache, c.reads)
            ELSE ex' = [ex EXCEPT
                          !.an[s].cache = c.cache,
                          !.an[s].reads = @ \o c.reads,
                          !.an[s].issues = @ \o RootInodeIssues(c.inode),
                          !.an[s].pc = "block_groups"]
    /\ UNCHANGED ExOthers

\* check_block_groups line 353: the number of groups
ExCountBlockGroups ==
    /\ \E s \in Sides :
         /\ Turn(s) /\ ex.an[s].pc = "block_groups"
         /\ IF ex.an[s].sb["s_blocks_per_group"] = 0
            THEN Raise(s, "ZeroDivisionError", ex.an[s].cache, << >>)
            ELSE ex' = [ex EXCEPT !.an[s].num_groups = NumGroups(ex.an[s].sb),
                                  !.an[s].bg_num = 0,
                                  !.an[s].pc = "bg_loop"]
    /\ UNCHANGED ExOthers

\* check_block_groups lines 358-383: one iteration of the loop
ExCheckBlockGroup ==
    /\ \E s \in Sides :
         /\ Turn(s) /\ ex.an[s].pc = "bg_loop"
         /\ ex.an[s].bg_num < GroupsToCheck(ex.an[s].num_groups)
         /\ LET a == ex.an[s]
                d == ParseBlockGroupDescriptor(s, ex.dev[s], a, a.bg_num)
            IN  IF ~d.ok THEN Raise(s, d.exc, d.cache, <<d.read>>)
                ELSE ex' = [ex EXCEPT
                              !.an[s].cache = d.cache,
                              !.an[s].reads = Append(@, d.read),
                              !.an[s].issues = @ \o BlockGroupIssues(a.sb, a.bg_num, d.bg),
                              !.an[s].bg_num = @ + 1]
    /\ UNCHANGED ExOthers

\* analyze lines 425-443: the loop is over; journal checks, warnings, info
ExFinishAnalyze ==
    /\ \E s \in Sides :
         /\ Turn(s) /\ ex.an[s].pc = "bg_loop"
         /\ ex.an[s].bg_num >= GroupsToCheck(ex.an[s].num_groups)
         /\ LET sb == ex.an[s].sb IN
            ex' = [ex EXCEPT
                     !.an[s].issues = @ \o JournalIssues(sb),
                     !.an[s].warnings = @ \o Warnings64Bit(sb),
                     !.an[s].info = <<<<"filesystem_size", sb["blocks_count"],
                                        ex.an[s].block_size>>,
                                      <<"block_groups", NumGroups(sb)>>>>,
                     !.an[s].pc = "returned"]
    /\ UNCHANGED ExOthers

\* an attribution that blames side A whenever side A has issues
AttributionIgnoresB(issues1, issues2) ==
    IF issues1 # << >> THEN "A_only_has_issues"
    ELSE IF issues2 # << >> THEN "B_only_has_issues"
    ELSE "both_clean"

\* compare_deep lines 510-517: which side has issues
Attribution(issues1, issues2) ==
    IF issues1 # << >> /\ issues2 = << >> THEN "A_only_has_issues"
    ELSE IF issues2 # << >> /\ issues1 = << >> THEN "B_only_has_issues"
    ELSE IF issues1 # << >> /\ issues2 # << >> THEN "both_have_issues"
    ELSE "both_clean"

\* compare_deep lines 505-517: the field mismatch records of the comparison
\* summary.  The summary prints the attribution only; no field of the two
\* superblocks is compared.
SuperblockDiff(sb1, sb2) == << >>

\* compare_deep lines 502-517 (both analyses returned): print_analysis of each
\* side, then the comparison summary; main lines 536-539 for a single device.
ExReport ==
    /\ ex.pc = "analyzing" /\ ex.an["A"].pc = "returned"
    /\ ex.mode = "compare" => ex.an["B"].pc = "returned"
    /\ ex' = [ex EXCEPT
                !.pc = "done",
                !.printed = IF ex.mode = "compare" THEN <<"A", "B">> ELSE <<"A">>,
                !.diff = IF ex.mode = "compare"
                         THEN SuperblockDiff(ex.an["A"].sb, ex.an["B"].sb)
                         ELSE << >>,
                !.summary = IF ex.mode = "compare"
                            THEN Attribution(ex.an["A"].issues, ex.an["B"].issues)
                            ELSE "none"]
    /\ UNCHANGED ExOthers

ExNext ==
    \/ ExParseSuperblock \/ ExSuperblockChecks \/ ExCheckRootInode
    \/ ExCountBlockGroups \/ ExCheckBlockGroup \/ ExFinishAnalyze \/ ExReport

SpecExt4 == ExInit /\ [][ExNext]_vars

(***************************************************************************)
(* ext4 block group listing: ext4_bg_compare.py analyze_block_groups, one  *)
(* device (main calls it once per device, each call on its own).           *)
(***************************************************************************)

\* The devices listed: BaseDevice with a number of block groups, one group
\* whose descriptor may be defective, and the superblock values the listing
\* decodes.
BgcDevices ==
    {[BaseDevice EXCEPT !.s_blocks_count_lo = n * 8192, !.bad_group = g,
                        !.bg_block_bitmap_lo = b, !.bg_checksum = c,
                        !.s_feature_ro_compat = r, !.s_desc_size = d,
                        !.mlen = l, !.s_blocks_per_group = p] :
       n \in {1, 7, 12}, g \in {0, 4, 5, 9, 10}, b \in {3, 0}, c \in {4321, 0},
       r \in {0, 16}, d \in {0, 64, 16, 128}, l \in {8388608, 2064, 1100},
       p \in {8192, 0}}

\* desc_size = s_desc_size if s_desc_size else 32
BgcDescSize(s_desc_size) == IF s_desc_size # 0 THEN s_desc_size ELSE 32

\* bgd_offset: block 2 for 1K blocks, block 1 for larger blocks
BgcDescOffset(block_size, desc_size, bg_num) ==
    (IF block_size = 1024 THEN 2048 ELSE block_size) + bg_num * desc_size

\* the issues of one row of the listing (lines 95-103)
BgcRowIssues(has_gdt_csum, d) ==
    (IF d.bg_block_bitmap_lo = 0 THEN <<"NO_BLOCK_BMP">> ELSE << >>)
      \o (IF d.bg_inode_bitmap_lo = 0 THEN <<"NO_INODE_BMP">> ELSE << >>)
      \o (IF d.bg_inode_table_lo = 0 THEN <<"NO_INODE_TBL">> ELSE << >>)
      \o (IF has_gdt_csum /\ d.bg_checksum = 0 THEN <<"NO_CHECKSUM">> ELSE << >>)

\* range(min(10, num_groups))
BgcGroupsListed(num_groups) == Min(10, num_groups)

\* main: the device analyze_block_groups opens
BgcInit ==
    /\ ck = Idle /\ bs = Idle /\ ex = Idle /\ fd = Idle /\ xf = Idle
    /\ \E dev \in BgcDevices :
         bgc = [pc |-> "superblock", dev |-> dev, block_size |-> 0,
                desc_size |-> 0, num_groups |-> 0, has_gdt_csum |-> FALSE,
                bg_num |-> 0, rows |-> << >>, reads |-> << >>, exc |-> "none"]

\* analyze_block_groups lines 37-67: read and decode the superblock values;
\* nothing catches struct.error or ZeroDivisionError
BgcReadSuperblock ==
    /\ bgc.pc = "superblock"
    /\ LET dev == bgc.dev
           r == BgReadSequential("dev", dev.mlen, 1024, 1024)
           rd == <<<<"superblock", 1024, 1024, r.data.len>>>>
       IN  IF r.data.len < 104 \/ r.data.len = 255
           THEN bgc' = [bgc EXCEPT !.pc = "aborted", !.exc = "struct.error",
                                   !.reads = rd]
           ELSE IF dev.s_blocks_per_group = 0
           THEN bgc' = [bgc EXCEPT !.pc = "aborted", !.reads = rd,
                                   !.exc = "ZeroDivisionError"]
           ELSE bgc' = [bgc EXCEPT
                  !.pc = "loop", !.reads = rd,
                  !.block_size = 1024 * (2 ^ dev.s_log_block_size),
                  !.desc_size = BgcDescSize(IF r.data.len > 254
                                            THEN dev.s_desc_size ELSE 0),
                  !.num_groups = (dev.s_blocks_count_lo + dev.s_blocks_per_group - 1)
                                   \div dev.s_blocks_per_group,
                  !.has_gdt_csum = HasBit(dev.s_feature_ro_compat, 16)]
    /\ UNCHANGED BgcOthers

\* one iteration of the loop of lines 78-108: the row of group bg_num
BgcListGroup ==
    /\ bgc.pc = "loop" /\ bgc.bg_num < BgcGroupsListed(bgc.num_groups)
    /\ LET offset == BgcDescOffset(bgc.block_size, bgc.desc_size, bgc.bg_num)
           r == BgReadSequential("dev", bgc.dev.mlen, offset, bgc.desc_size)
           rd == <<"group_descriptor", offset, bgc.desc_size, r.data.len>>
           row == IF r.data.len < 32 THEN <<bgc.bg_num, "error", << >>>>
                  ELSE <<bgc.bg_num, "row",
                         BgcRowIssues(bgc.has_gdt_csum,
                                      DescriptorOf(bgc.dev, bgc.bg_num))>>
       IN  bgc' = [bgc EXCEPT !.rows = Append(@, row),
                              !.reads = Append(@, rd),
                              !.bg_num = @ + 1]
    /\ UNCHANGED BgcOthers

\* the loop is over: lines 110-113
BgcFinish ==
    /\ bgc.pc = "loop" /\ bgc.bg_num >= BgcGroupsListed(bgc.num_groups)
    /\ bgc' = [bgc EXCEPT !.pc = "done"]
    /\ UNCHANGED BgcOthers

BgcNext == BgcReadSuperblock \/ BgcListGroup \/ BgcFinish

SpecBgc == BgcInit /\ [][BgcNext]_vars

(***************************************************************************)
(* FAT16 analysis: fat16_hexdump.py main, one device.                      *)
(***************************************************************************)

\* The longest root directory the model reads, in 32-byte slots.
MaxSlots == 4

\* A boot sector that analyze_boot_sector marks as valid throughout.
BaseBoot ==
    [bytes_per_sector |-> 512, sectors_per_cluster |-> 4, reserved_sectors |-> 1,
     num_fats |-> 2, root_entries |-> 512, total_sectors_16 |-> 0,
     sectors_per_fat |-> 40, total_sectors_32 |-> 40000, boot_sig |-> 43605]

\* The boot sectors analysed: BaseBoot with one field changed.
BootSectors ==
    {BaseBoot}
      \cup {[BaseBoot EXCEPT !.boot_sig = 0], [BaseBoot EXCEPT !.num_fats = 1],
            [BaseBoot EXCEPT !.num_fats = 3], [BaseBoot EXCEPT !.num_fats = 0],
            [BaseBoot EXCEPT !.sectors_per_cluster = 0],
            [BaseBoot EXCEPT !.bytes_per_sector = 0],
            [BaseBoot EXCEPT !.reserved_sectors = 0],
            [BaseBoot EXCEPT !.total_sectors_32 = 4000]}

\* A directory slot, by the two bytes the decoding looks at: entry[0], entry[11].
SlotKinds ==
    {[first |-> 65, attr |-> 32], [first |-> 65, attr |-> 15],
     [first |-> 0, attr |-> 0], [first |-> 0, attr |-> 15],
     [first |-> 229, attr |-> 15], [first |-> 65, attr |-> 8],
     [first |-> 5, attr |-> 32]}

\* The root directory sectors read: every sequence of at most MaxSlots slots.
Directories == UNION {[1..k -> SlotKinds] : k \in 0..MaxSlots}

\* the marks analyze_boot_sector prints next to the fields it judges
BootMarks(b) ==
    <<<<"bytes_per_sector", IF b.bytes_per_sector = 512 THEN "ok" ELSE "bad">>,
      <<"reserved_sectors", IF b.reserved_sectors >= 1 THEN "ok" ELSE "bad">>,
      <<"num_fats", IF b.num_fats = 2 THEN "ok" ELSE "warn">>,
      <<"root_entries", IF b.root_entries = 512 THEN "ok" ELSE "warn">>,
      <<"boot_sig", IF b.boot_sig = 43605 THEN "ok" ELSE "bad">>>>

\* total_clusters of analyze_boot_sector lines 87-91 (both divisors non-zero)
TotalClusters(b) ==
    LET total_sectors == IF b.total_sectors_16 = 0 THEN b.total_sectors_32
                         ELSE b.total_sectors_16
        root_dir_sectors == ((b.root_entries * 32) + (b.bytes_per_sector - 1))
                              \div b.bytes_per_sector
        data_start_sector == b.reserved_sectors + (b.num_fats * b.sectors_per_fat)
                               + root_dir_sectors
    IN  (total_sectors - data_start_sector) \div b.sectors_per_cluster

\* lines 101-106: the cluster count check
ClusterCountMark(total_clusters) ==
    IF total_clusters < 4085 \/ total_clusters > 65524 THEN "bad" ELSE "ok"

\* the decoding order of analyze_root_directory for one slot: a slot never
\* classified as the end of the directory
SlotVariantWithoutEnd(slot) ==
    IF slot.first = 229 THEN "deleted"
    ELSE IF slot.attr = 15 THEN "long_name"
    ELSE IF (slot.attr \div 8) % 2 = 1 THEN "volume_label"
    ELSE "short_name"

\* a decoding that looks at the volume label bit before the long name test
SlotVariantLabelFirst(slot) ==
    IF slot.first = 0 THEN "end_of_directory"
    ELSE IF slot.first = 229 THEN "deleted"
    ELSE IF (slot.attr \div 8) % 2 = 1 THEN "volume_label"
    ELSE IF slot.attr = 15 THEN "long_name"
    ELSE "short_name"

\* analyze_root_directory lines 163-200: the decoding order for one slot
SlotVariant(slot) ==
    IF slot.first = 0 THEN "end_of_directory"
    ELSE IF slot.first = 229 THEN "deleted"
    ELSE IF slot.attr = 15 THEN "long_name"
    ELSE IF (slot.attr \div 8) % 2 = 1 THEN "volume_label"
    ELSE "short_name"

\* main: the boot sector read_sectors(device, 0, 1) returns
FdInit ==
    /\ ck = Idle /\ bs = Idle /\ ex = Idle /\ bgc = Idle /\ xf = Idle
    /\ \E b \in BootSectors :
         fd = [pc |-> "boot", boot |-> b, marks |-> << >>, returned |-> FALSE,
               fat_entries |-> 0, slots |-> << >>, n |-> 0, i |-> 0,
               out |-> << >>, exc |-> "none"]

\* analyze_boot_sector: the marks are printed, then the derived values are
\* computed; a division by zero leaves main and is printed by __main__.
FdAnalyzeBootSector ==
    /\ fd.pc = "boot"
    /\ IF fd.boot.bytes_per_sector = 0 \/ fd.boot.sectors_per_cluster = 0
       THEN fd' = [fd EXCEPT !.pc = "aborted", !.marks = BootMarks(fd.boot),
                             !.exc = "ZeroDivisionError"]
       ELSE fd' = [fd EXCEPT
                     !.pc = "fat", !.returned = TRUE,
                     !.marks = Append(BootMarks(fd.boot),
                                      <<"cluster_count",
                                        ClusterCountMark(TotalClusters(fd.boot))>>)]
    /\ UNCHANGED FdOthers

\* analyze_fat: annotates min(num_entries, len(fat_data) // 2) entries of the
\* first FAT sector
FdAnalyzeFat ==
    /\ fd.pc = "fat"
    /\ fd' = [fd EXCEPT !.pc = "root", !.fat_entries = Min(20, 512 \div 2)]
    /\ UNCHANGED FdOthers

\* analyze_root_directory lines 152-161: read the first root directory sector
FdReadRootDirectory ==
    /\ fd.pc = "root"
    /\ \E slots \in Directories :
         fd' = [fd EXCEPT !.pc = "dir_loop", !.slots = slots,
                          !.n = Min(16, (Len(slots) * 32) \div 32), !.i = 0]
    /\ UNCHANGED FdOthers

\* one iteration of the loop of analyze_root_directory: slot i
FdDecodeSlot ==
    /\ fd.pc = "dir_loop" /\ fd.i < fd.n
    /\ LET v == SlotVariant(fd.slots[fd.i + 1]) IN
       fd' = [fd EXCEPT !.out = Append(@, <<fd.i, v>>),
                        !.i = IF v = "end_of_directory" THEN @ ELSE @ + 1,
                        !.pc = IF v = "end_of_directory" THEN "done" ELSE @]
    /\ UNCHANGED FdOthers

\* the loop ran over all the slots without meeting the end marker
FdDirectoryExhausted ==
    /\ fd.pc = "dir_loop" /\ fd.i >= fd.n
    /\ fd' = [fd EXCEPT !.pc = "done"]
    /\ UNCHANGED FdOthers

FdNext ==
    \/ FdAnalyzeBootSector \/ FdAnalyzeFat \/ FdReadRootDirectory
    \/ FdDecodeSlot \/ FdDirectoryExhausted

SpecFat16 == FdInit /\ [][FdNext]_vars

(***************************************************************************)
(* exFAT comparison: exfat_compare.py compare_devices, two devices.        *)
(***************************************************************************)

\* The number of fields, over both devices, in which the pair compared
\* deviates from two copies of a valid volume.
MaxExfatDeviations == 2

\* A root directory slot: the entry type byte and, for a volume label, its text;
\* bytes is what f.read(32) returns for the slot.
Slot(type, label) == [type |-> type, label |-> label, bytes |-> 32]

\* The last slot of a directory at the end of the medium: n < 32 bytes of it
PartialSlot(type, n) == [type |-> type, label |-> "", bytes |-> n]

\* The root directory of a valid volume: label, bitmap, upcase table, GUID.
BaseRoot ==
    <<Slot(131, "VOL"), Slot(129, ""), Slot(130, ""), Slot(160, "")>>

\* A valid exFAT volume.  fat_diff_at: the index of the FAT entry in which the
\* volume's FAT differs from the FAT of the other valid volumes (-1: none).
BaseVolume ==
    [short |-> FALSE, fs_name |-> "EXFAT   ", num_fats |-> 1,
     boot_signature |-> 43605, fat_offset |-> 128, volume_flags |-> 0,
     percent_in_use |-> 0, checksum_ok |-> TRUE, fat_diff_at |-> -1,
     root |-> BaseRoot]

\* The deviations from BaseVolume the model tries, as <<field, value>>.
VolumeDeviations ==
    {<<"short", TRUE>>, <<"fs_name", "NTFS    ">>, <<"num_fats", 3>>,
     <<"num_fats", 2>>, <<"boot_signature", 0>>, <<"fat_offset", 256>>,
     <<"volume_flags", 2>>, <<"percent_in_use", 50>>,
     <<"checksum_ok", FALSE>>, <<"fat_diff_at", 0>>, <<"fat_diff_at", 5>>,
     <<"root", <<Slot(131, "VOL"), Slot(130, ""), Slot(160, "")>>>>,
     <<"root", <<Slot(131, "VOL"), Slot(129, ""), Slot(160, "")>>>>,
     <<"root", <<Slot(131, "VOL"), Slot(129, ""), Slot(130, "")>>>>,
     <<"root", <<Slot(131, "Bitmap"), Slot(130, ""), Slot(160, "")>>>>,
     <<"root", <<Slot(192, ""), Slot(129, ""), Slot(130, ""), Slot(160, "")>>>>,
     <<"root", <<Slot(131, "VOL"), Slot(0, ""), Slot(129, ""), Slot(130, ""),
                 Slot(160, "")>>>>,
     <<"root", BaseRoot \o [j \in 1..14 |-> Slot(133, "")]>>,
     <<"root", BaseRoot \o <<Slot(193, ""), PartialSlot(133, 10)>>>>,
     <<"root", << >>>>}

\* A deviation together with the device it is applied to.
TaggedVolumeDeviations == {"A", "B"} \X VolumeDeviations

\* The device pairs compared: at most MaxExfatDeviations deviations over both.
VolumeDeviationSets == SubsetsUpTo(TaggedVolumeDeviations, MaxExfatDeviations)

\* BaseVolume with the deviations D applied.
VolumeWith(D) ==
    [f \in DOMAIN BaseVolume |->
       IF \E d \in D : d[1] = f THEN (CHOOSE d \in D : d[1] = f)[2]
       ELSE BaseVolume[f]]

\* parse_boot_sector: the fields decoded from the boot sector of volume v
\* (those the model varies; the others are equal on all volumes).
BootFields(v) ==
    [k \in {"fs_name", "fat_offset", "volume_flags", "num_fats",
            "percent_in_use", "boot_signature"} |-> v[k]]

\* compare_devices lines 147-151: the keys printed with DIFF
FieldDiffs(fields1, fields2) == {k \in DOMAIN fields1 : fields1[k] # fields2[k]}

\* The 32-bit value of entry i read at sector `offset` of volume v: the FAT of
\* the volume if its FAT is there, zeros otherwise.
FatEntryAt(v, offset, i) ==
    IF offset # v.fat_offset THEN 0
    ELSE IF i = v.fat_diff_at THEN 7 ELSE 1000 + i

\* compare_fat_entries(dev1, dev2, fat_offset, num_entries): the indexes
\* printed as different; both files are positioned at the one fat_offset given
FatDiffs(v1, v2, fat_offset, num_entries) ==
    {i \in 0..(num_entries - 1) :
       FatEntryAt(v1, fat_offset, i) # FatEntryAt(v2, fat_offset, i)}

RECURSIVE ReadRootDirectoryStopsAtUnknown(_, _)
\* a decoding that gives up at the first slot of a type it does not know
ReadRootDirectoryStopsAtUnknown(root, i) ==
    IF i > Len(root) \/ i > 16 \/ root[i].bytes < 32 \/ root[i].type = 0
      \/ root[i].type \notin {131, 129, 130, 160, 133}
    THEN << >>
    ELSE <<(CASE root[i].type = 131 -> <<"Volume Label", root[i].label>>
              [] root[i].type = 129 -> <<"Bitmap", "">>
              [] root[i].type = 130 -> <<"Upcase", "">>
              [] root[i].type = 160 -> <<"Volume GUID", "">>
              [] root[i].type = 133 -> <<"File Entry", "">>)>>
           \o ReadRootDirectoryStopsAtUnknown(root, i + 1)

RECURSIVE ReadRootDirectory(_, _)
\* read_root_directory: the entries decoded from the slots, from slot i on;
\* at most 16 slots, stopping at a short read or at type 0x00.  An entry is
\* <<text kind, detail>>; the detail of 'Entry type 0x..' is the type byte.
ReadRootDirectory(root, i) ==
    IF i > Len(root) \/ i > 16 \/ root[i].bytes < 32 \/ root[i].type = 0
    THEN << >>
    ELSE <<(CASE root[i].type = 131 -> <<"Volume Label", root[i].label>>
              [] root[i].type = 129 -> <<"Bitmap", "">>
              [] root[i].type = 130 -> <<"Upcase", "">>
              [] root[i].type = 160 -> <<"Volume GUID", "">>
              [] root[i].type = 133 -> <<"File Entry", "">>
              [] OTHER -> <<"Entry type", root[i].type>>)>>
           \o ReadRootDirectory(root, i + 1)

\* 'word' in e, for the entry text e: the text begins with its kind, and a
\* volume label entry quotes the label
TextContains(e, word) == e[1] = word \/ (e[1] = "Volume Label" /\ e[2] = word)

\* any(word in e for e in entries)
AnyContains(entries, word) ==
    \E j \in 1..Len(entries) : TextContains(entries[j], word)

\* compare_devices lines 199-217: the critical issues, all of the first device
CriticalIssues(fields1, checksum_ok1, entries1) ==
    (IF fields1["fs_name"] # "EXFAT   " THEN <<<<"fs_name">>>> ELSE << >>)
      \o (IF ~checksum_ok1 THEN <<<<"checksum_mismatch">>>> ELSE << >>)
      \o (IF fields1["num_fats"] \notin {1, 2}
          THEN <<<<"invalid_num_fats">>>> ELSE << >>)
      \o (IF ~AnyContains(entries1, "Volume GUID")
          THEN <<<<"missing_volume_guid">>>> ELSE << >>)
      \o (IF ~AnyContains(entries1, "Bitmap")
          THEN <<<<"missing_bitmap">>>> ELSE << >>)
      \o (IF ~AnyContains(entries1, "Upcase")
          THEN <<<<"missing_upcase">>>> ELSE << >>)

\* __main__ with two device paths: the two volumes compare_devices is given
XfInit ==
    /\ ck = Idle /\ bs = Idle /\ ex = Idle /\ bgc = Idle /\ fd = Idle
    /\ \E T \in VolumeDeviationSets :
       LET DA == {t[2] : t \in {u \in T : u[1] = "A"}}
           DB == {t[2] : t \in {u \in T : u[1] = "B"}}
       IN
         /\ Consistent(DA) /\ Consistent(DB)
         /\ xf = [pc |-> "boot",
                  vol |-> [s \in Sides |-> VolumeWith(IF s = "A" THEN DA ELSE DB)],
                  fields |-> [s \in Sides |-> << >>],
                  diffs |-> {}, same |-> {},
                  checksum_match |-> [s \in Sides |-> FALSE],
                  fat_diffs |-> {},
                  entries |-> [s \in Sides |-> << >>],
                  issues |-> << >>, no_issues_line |-> FALSE,
                  reads |-> << >>, exc |-> "none", error_line |-> "none"]

\* compare_devices lines 138-143: both boot sectors are read, then both are
\* parsed; a boot sector cut short raises in parse_boot_sector, and __main__
\* prints "Error: ..." and exits.
XfReadBootSectors ==
    /\ xf.pc = "boot"
    /\ LET rd == <<<<"A", "sector", 0>>, <<"B", "sector", 0>>>> IN
       IF xf.vol["A"].short \/ xf.vol["B"].short
       THEN xf' = [xf EXCEPT !.pc = "aborted", !.reads = @ \o rd,
                             !.fields["A"] = IF xf.vol["A"].short THEN << >>
                                             ELSE BootFields(xf.vol["A"]),
                             !.exc = "struct.error", !.error_line = "Error"]
       ELSE xf' = [xf EXCEPT !.pc = "fields", !.reads = @ \o rd,
                             !.fields = [s \in Sides |-> BootFields(xf.vol[s])]]
    /\ UNCHANGED XfOthers

\* compare_devices lines 146-151: DIFF or OK for every key of fields1
XfCompareFields ==
    /\ xf.pc = "fields"
    /\ xf' = [xf EXCEPT
                !.pc = "checksum",
                !.diffs = FieldDiffs(xf.fields["A"], xf.fields["B"]),
                !.same = DOMAIN xf.fields["A"]
                           \ FieldDiffs(xf.fields["A"], xf.fields["B"])]
    /\ UNCHANGED XfOthers

\* compare_devices lines 154-174: sectors 0-10 of both devices, read in turn,
\* then sector 11 of each; stored against calculated checksum
XfVerifyChecksums ==
    /\ xf.pc = "checksum"
    /\ xf' = [xf EXCEPT
                !.pc = "fat",
                !.reads = @ \o [j \in 1..22 |->
                                  <<IF j % 2 = 1 THEN "A" ELSE "B", "sector",
                                    (j - 1) \div 2>>]
                            \o <<<<"A", "sector", 11>>, <<"B", "sector", 11>>>>,
                !.checksum_match = [s \in Sides |-> xf.vol[s].checksum_ok]]
    /\ UNCHANGED XfOthers

\* compare_devices line 177: compare_fat_entries(dev1, dev2, fields1['fat_offset'])
XfCompareFat ==
    /\ xf.pc = "fat"
    /\ LET fat_offset == xf.fields["A"]["fat_offset"] IN
       xf' = [xf EXCEPT
                !.pc = "root",
                !.reads = @ \o <<<<"A", "fat", fat_offset>>, <<"B", "fat", fat_offset>>>>,
                !.fat_diffs = FatDiffs(xf.vol["A"], xf.vol["B"], fat_offset, 20)]
    /\ UNCHANGED XfOthers

\* compare_devices lines 180-195: the root directory entries of each device
XfReadRootDirectories ==
    /\ xf.pc = "root"
    /\ xf' = [xf EXCEPT
                !.pc = "issues",
                !.reads = @ \o <<<<"A", "root", 0>>, <<"B", "root", 0>>>>,
                !.entries = [s \in Sides |-> ReadRootDirectory(xf.vol[s].root, 1)]]
    /\ UNCHANGED XfOthers

\* compare_devices lines 198-223: the critical issues and their printing
XfCriticalIssues ==
    /\ xf.pc = "issues"
    /\ LET issues == CriticalIssues(xf.fields["A"], xf.checksum_match["A"],
                                    xf.entries["A"])
       IN xf' = [xf EXCEPT !.pc = "done", !.issues = issues,
                           !.no_issues_line = (issues = << >>)]
    /\ UNCHANGED XfOthers

XfNext ==
    \/ XfReadBootSectors \/ XfCompareFields \/ XfVerifyChecksums
    \/ XfCompareFat \/ XfReadRootDirectories \/ XfCriticalIssues

SpecExfat == XfInit /\ [][XfNext]_vars

(***************************************************************************)
(* Claims about the ext4 analysis (checked under SpecExt4).                *)
(***************************************************************************)

\* parse_superblock returned a record for side s (self.sb is set).
Decoded(s) == ex.an[s].pc \in {"sb_checks", "root_inode", "block_groups",
                                "bg_loop", "returned"}
              \/ (ex.an[s].pc = "raised" /\ DOMAIN ex.an[s].sb # {})

\* the kinds of the entries of an issue list
Kinds(issues) == {issues[i][1] : i \in 1..Len(issues)}

\* C7: for every readable superblock whose s_magic is not 0xEF53, analyze
\* short-circuits: the result holds exactly one issue, the invalid magic, no
\* warning and no info, nothing of the later checks; the only read made is the
\* superblock read (no group descriptor, no inode).
C7_InvalidMagicShortCircuits ==
    \A s \in Sides :
        (Decoded(s) /\ ex.an[s].sb["s_magic"] # 61267)
        => /\ ex.an[s].pc = "returned"
           /\ ex.an[s].issues = <<<<"invalid_magic", ex.an[s].sb["s_magic"]>>>>
           /\ ex.an[s].warnings = << >>
           /\ ex.an[s].info = << >>
           /\ Len(ex.an[s].reads) = 1
           /\ ex.an[s].reads[1][1] = "superblock"

\* a superblock with a wrong magic has been analysed and reported
C7_Witness ==
    /\ ex.pc = "done"
    /\ \E s \in Sides : Decoded(s) /\ ex.an[s].sb["s_magic"] # 61267

\* The fields the specification calls extended: error counters, journal fields.
ErrorAndJournalFields ==
    {"s_error_count", "s_first_error_time", "s_first_error_func",
     "s_last_error_time", "s_journal_inum"}

\* C8: for every superblock with s_rev_level = 0 the extended fields (error
\* counters and journal fields) are absent from the decoded record, and neither
\* the recorded-error check nor the journal checks add an issue.
C8_Rev0HasNoExtendedFieldsNorTheirIssues ==
    \A s \in Sides :
        (Decoded(s) /\ ex.an[s].sb["s_rev_level"] = 0)
        => /\ DOMAIN ex.an[s].sb \cap ErrorAndJournalFields = {}
           /\ Kinds(ex.an[s].issues)
                 \cap {"recorded_errors", "first_error_at", "first_error_function",
                       "last_error_at", "journal_inode_zero",
                       "journal_needs_recovery"} = {}

\* every read the analyzer of side s has made returned all the bytes asked for
AllReadsFull(s) ==
    \A i \in 1..Len(ex.an[s].reads) : ex.an[s].reads[i][4] = ex.an[s].reads[i][3]

\* C9: the analysis never aborts because a decoded value is invalid: with a
\* fully readable superblock of valid magic (s_blocks_per_group = 0 and
\* s_inodes_per_group = 0 included) and every read answered in full, analyze
\* does not raise.
C9_AnalyzeNeverAbortsOnInvalidValue ==
    \A s \in Sides :
        (Decoded(s) /\ ex.an[s].sb["s_magic"] = 61267 /\ AllReadsFull(s))
        => ex.an[s].pc # "raised"

\* the other side of a comparison
Other(s) == IF s = "A" THEN "B" ELSE "A"

\* C10: in a comparison, when decoding one side has failed and the run has
\* ended, the other side's analysis has run to completion and its result has
\* been reported, whichever side failed.
C10_OtherSideStillReported ==
    \A s \in Sides :
        (ex.mode = "compare" /\ ex.pc = "aborted" /\ ex.an[s].pc = "raised")
        => /\ ex.an[Other(s)].pc = "returned"
           /\ \E i \in 1..Len(ex.printed) : ex.printed[i] = Other(s)

\* C11: the attribution of a comparison is one of four outcomes, decided by
\* which of the two issue lists are empty: A-only iff A's is non-empty and B's
\* empty, B-only iff B's is non-empty and A's empty, both iff both are
\* non-empty, clean iff both are empty.
C11_AttributionIsFourWayByEmptiness ==
    (ex.pc = "done" /\ ex.mode = "compare")
    => LET a == Len(ex.an["A"].issues) > 0
           b == Len(ex.an["B"].issues) > 0
       IN  /\ ex.summary \in {"A_only_has_issues", "B_only_has_issues",
                               "both_have_issues", "both_clean"}
           /\ ex.summary = "A_only_has_issues" <=> (a /\ ~b)
           /\ ex.summary = "B_only_has_issues" <=> (b /\ ~a)
           /\ ex.summary = "both_have_issues" <=> (a /\ b)
           /\ ex.summary = "both_clean" <=> (~a /\ ~b)

\* a reported comparison with one issue on side A and none on side B
C11_Witness ==
    /\ ex.pc = "done" /\ ex.mode = "compare"
    /\ Len(ex.an["A"].issues) = 1 /\ Len(ex.an["B"].issues) = 0
    /\ ex.summary = "A_only_has_issues"

\* the fields on which two decoded superblocks differ
DifferingFields(sb1, sb2) ==
    {k \in DOMAIN sb1 \cap DOMAIN sb2 : sb1[k] # sb2[k]}
      \cup ((DOMAIN sb1 \cup DOMAIN sb2) \ (DOMAIN sb1 \cap DOMAIN sb2))

\* C12: comparing two sources whose superblocks are identical except for
\* s_mtime gives a field diff of exactly one mismatch record, for s_mtime.
C12_OnlyMtimeDiffers ==
    (/\ ex.pc = "done" /\ ex.mode = "compare"
     /\ DifferingFields(ex.an["A"].sb, ex.an["B"].sb) = {"s_mtime"})
    => ex.diff = <<<<"s_mtime", ex.an["A"].sb["s_mtime"], ex.an["B"].sb["s_mtime"]>>>>

\* the result of side s holds a missing-checksum finding for group g
MissingChecksumFinding(s, g) ==
    \E i \in 1..Len(ex.an[s].issues) :
        /\ ex.an[s].issues[i][1] = "bg_missing_checksum"
        /\ ex.an[s].issues[i][2] = g

\* C16: the group-descriptor checksum check is a presence check: for an
\* examined group a missing-checksum finding is raised iff bit 0x10 of
\* s_feature_ro_compat is set and the stored bg_checksum is zero;
\* verify_block_group_checksum and the listing of ext4_bg_compare decide the
\* same way on the same descriptor.
C16_ChecksumCheckIsPresenceOnly ==
    \A s \in Sides : \A g \in 0..(ex.an[s].bg_num - 1) :
        LET sb == ex.an[s].sb
            d == DescriptorOf(ex.dev[s], g)
            gdt_csum == (sb["s_feature_ro_compat"] \div 16) % 2 = 1
        IN  /\ MissingChecksumFinding(s, g) <=> (gdt_csum /\ d.bg_checksum = 0)
            /\ MissingChecksumFinding(s, g) <=> ~VerifyBlockGroupChecksum(sb, d)
            /\ MissingChecksumFinding(s, g)
                 <=> (\E i \in 1..Len(BgcRowIssues(gdt_csum, d)) :
                        BgcRowIssues(gdt_csum, d)[i] = "NO_CHECKSUM")

\* a reported comparison: side A with a missing-checksum finding for group 0,
\* side B with group 0 examined and no such finding
C16_Witness ==
    /\ ex.pc = "done" /\ ex.mode = "compare"
    /\ MissingChecksumFinding("A", 0)
    /\ ex.an["B"].bg_num > 0 /\ ~MissingChecksumFinding("B", 0)

\* the read of the root inode check at position j of the read log of side s
\* came back empty or short
ShortReadAt(s, j, kind) ==
    /\ Len(ex.an[s].reads) >= j
    /\ ex.an[s].reads[j][1] = kind
    /\ ex.an[s].reads[j][4] < ex.an[s].reads[j][3]

\* C17: if the group descriptor or the inode of the root inode cannot be read
\* in full, inode resolution yields no inode record and the root-inode check
\* reports it ('Cannot read root inode'); no mode, permission or link-count
\* check is made, and the analysis does not abort.
C17_UnreadableLayerIsReported ==
    \A s \in Sides :
        (ShortReadAt(s, 2, "group_descriptor") \/ ShortReadAt(s, 3, "inode"))
        => /\ ex.an[s].pc # "raised"
           /\ "cannot_read_root_inode" \in Kinds(ex.an[s].issues)
           /\ Kinds(ex.an[s].issues)
                \cap {"root_not_directory", "root_no_permissions",
                      "root_links_too_low"} = {}

\* C18: the group-descriptor size used for the descriptor offset arithmetic
\* and for the descriptor read is always 32 or 64 bytes, whatever s_desc_size
\* the superblock holds: every descriptor read asks for 32 or 64 bytes.
C18_DescriptorSizeIs32Or64 ==
    \A s \in Sides :
        \A i \in 1..Len(ex.an[s].reads) :
            ex.an[s].reads[i][1] = "group_descriptor"
            => ex.an[s].reads[i][3] \in {32, 64}

\* C19: when the recorded error count is non-zero, the result holds one issue
\* for the error count, and the first/last error timestamps and the error
\* function name are in the result's info list, not in the issues list.
C19_ErrorDetailsAreInfo ==
    \A s \in Sides :
        (/\ ex.an[s].pc = "returned"
         /\ "s_error_count" \in DOMAIN ex.an[s].sb
         /\ ex.an[s].sb["s_error_count"] > 0)
        => /\ "recorded_errors" \in Kinds(ex.an[s].issues)
           /\ Kinds(ex.an[s].issues)
                \cap {"first_error_at", "first_error_function",
                      "last_error_at"} = {}
           /\ ex.an[s].sb["s_first_error_time"] > 0
                => "first_error_at" \in Kinds(ex.an[s].info)
           /\ ex.an[s].sb["s_last_error_time"] > 0
                => "last_error_at" \in Kinds(ex.an[s].info)

\* the root inode check of side s is over and both of its reads, of the group
\* descriptor and of the inode, were answered in full
RootInodeWasRead(s) ==
    /\ ex.an[s].pc \in {"block_groups", "bg_loop", "returned"}
    /\ Len(ex.an[s].reads) >= 3
    /\ ex.an[s].reads[2][1] = "group_descriptor"
    /\ ex.an[s].reads[2][4] = ex.an[s].reads[2][3]
    /\ ex.an[s].reads[3][1] = "inode"
    /\ ex.an[s].reads[3][4] = ex.an[s].reads[3][3]

\* the number of issues of the kind in the issue list
CountOfKind(issues, kind) ==
    Cardinality({i \in 1..Len(issues) : issues[i][1] = kind})

\* C26: for a readable root inode each of the three sanity conditions raises
\* its own issue independently of the others: (mode & 0xF000) != 0x4000 'not a
\* directory', (mode & 0x1FF) = 0 'no permissions', links_count < 2 'links
\* count too low'; hence no issue exactly when all three are satisfied.
C26_RootInodeConditionsAreIndependent ==
    \A s \in Sides :
        RootInodeWasRead(s)
        => LET mode == ex.dev[s].i_mode
               links == ex.dev[s].i_links_count
               not_dir == ~(mode >= 16384 /\ mode < 20480)
               no_perms == (mode % 512 = 0)
               few_links == links < 2
               n(kind) == CountOfKind(ex.an[s].issues, kind)
           IN /\ n("cannot_read_root_inode") = 0
              /\ n("root_not_directory") = (IF not_dir THEN 1 ELSE 0)
              /\ n("root_no_permissions") = (IF no_perms THEN 1 ELSE 0)
              /\ n("root_links_too_low") = (IF few_links THEN 1 ELSE 0)

\* a root inode that fails all three conditions got all three issues
C26_Witness ==
    \E s \in Sides :
        /\ RootInodeWasRead(s) /\ ex.an[s].pc = "returned"
        /\ ex.dev[s].i_mode = 32768 /\ ex.dev[s].i_links_count = 1
        /\ {"root_not_directory", "root_no_permissions", "root_links_too_low"}
             \subseteq Kinds(ex.an[s].issues)

(***************************************************************************)
(* Claims about the block group listing (checked under SpecBgc).           *)
(***************************************************************************)

\* C15: per-group-descriptor checking is bounded to the first 5 block groups:
\* the descriptors examined are exactly those of groups 0 .. min(number of
\* groups, 5) - 1, and no finding is reported for a group of index >= 5.
C15_OnlyFirstFiveGroupsExamined ==
    /\ \A j \in 1..Len(bgc.rows) : bgc.rows[j][1] < 5
    /\ bgc.pc = "done"
       => {bgc.rows[j][1] : j \in 1..Len(bgc.rows)}
            = 0..(Min(bgc.num_groups, 5) - 1)

(***************************************************************************)
(* Claims about the FAT16 analysis (checked under SpecFat16).              *)
(***************************************************************************)

\* the index of the first slot whose first byte is 0x00; Len(slots) if none
FirstEndMarker(slots) ==
    IF \E j \in 1..Len(slots) : slots[j].first = 0
    THEN (CHOOSE j \in 1..Len(slots) :
            /\ slots[j].first = 0
            /\ \A k \in 1..(j - 1) : slots[k].first # 0) - 1
    ELSE Len(slots)

\* the decoded entries of the output: everything but the end-of-directory line
DecodedEntries(out) == SelectSeq(out, LAMBDA o : o[2] # "end_of_directory")

\* C13: root-directory decoding takes the slots in order and stops at the
\* first slot whose first byte is 0x00: no slot at or after the marker is
\* decoded, and [short name, long-name fragment, end marker, ...] yields
\* exactly two entries whatever follows the marker.
C13_DecodingStopsAtEndMarker ==
    LET e == FirstEndMarker(fd.slots)
        d == DecodedEntries(fd.out)
    IN  fd.pc \in {"dir_loop", "done"}
        => /\ \A j \in 1..Len(d) : d[j][1] = j - 1 /\ d[j][1] < e
           /\ fd.pc = "done" => Len(d) = e
           /\ (/\ fd.pc = "done" /\ Len(fd.slots) >= 3
               /\ fd.slots[1] = [first |-> 65, attr |-> 32]
               /\ fd.slots[2] = [first |-> 65, attr |-> 15]
               /\ fd.slots[3].first = 0)
              => d = <<<<0, "short_name">>, <<1, "long_name">>>>

\* a short name, a long-name fragment, the end marker and a named slot after it
C13_Witness ==
    /\ fd.pc = "done" /\ Len(fd.slots) = 4
    /\ fd.slots[1] = [first |-> 65, attr |-> 32]
    /\ fd.slots[2] = [first |-> 65, attr |-> 15]
    /\ fd.slots[3].first = 0 /\ fd.slots[4].first # 0
    /\ Len(DecodedEntries(fd.out)) = 2

\* the variant the fixed precedence gives a slot with first byte `first` and
\* attribute byte `attr`
VariantByPrecedence(first, attr) ==
    CASE first = 0 -> "end_of_directory"
      [] first # 0 /\ first = 229 -> "deleted"
      [] first \notin {0, 229} /\ attr = 15 -> "long_name"
      [] first \notin {0, 229} /\ attr # 15 /\ (attr \div 8) % 2 = 1 -> "volume_label"
      [] OTHER -> "short_name"

\* C30: slot classification is a total function giving every decoded slot
\* exactly one variant by fixed precedence: first byte 0x00 end-of-directory,
\* else 0xE5 deleted, else attribute 0x0F long-name fragment, else attribute
\* bit 0x08 volume label, else short-name entry; a long-name fragment is never
\* reported as a volume label, a deleted slot never as a long or short name.
C30_SlotClassificationByPrecedence ==
    fd.pc \in {"dir_loop", "done"}
    => /\ fd.pc = "dir_loop" => Len(fd.out) = fd.i
       /\ \A j \in 1..Len(fd.out) :
            /\ fd.out[j][1] = j - 1
            /\ fd.out[j][2] = VariantByPrecedence(fd.slots[j].first, fd.slots[j].attr)
            /\ fd.slots[j].first = 229
                 => fd.out[j][2] \notin {"long_name", "short_name"}
            /\ (fd.slots[j].first \notin {0, 229} /\ fd.slots[j].attr = 15)
                 => fd.out[j][2] # "volume_label"

\* a long-name fragment and a deleted slot with the long-name attribute were
\* classified
C30_Witness ==
    /\ fd.pc = "done"
    /\ \E j \in 1..Len(fd.out) :
         /\ fd.slots[j].first = 65 /\ fd.slots[j].attr = 15
         /\ fd.out[j][2] = "long_name"
    /\ \E j \in 1..Len(fd.out) :
         /\ fd.slots[j].first = 229 /\ fd.slots[j].attr = 15
         /\ fd.out[j][2] = "deleted"

(***************************************************************************)
(* Claims about the exFAT comparison (checked under SpecExfat).            *)
(***************************************************************************)

\* the root directory of the volume of side s holds an entry of the type
HasEntryOfType(s, type) ==
    \E j \in 1..Len(xf.entries[s]) :
        xf.entries[s][j][1] = (CASE type = 129 -> "Bitmap"
                                 [] type = 130 -> "Upcase"
                                 [] type = 160 -> "Volume GUID")

\* C14: the presence of the three mandatory root-directory entries (bitmap,
\* upcase table, volume GUID) is evaluated on each side: on side A and on side
\* B alike, a root directory lacking one of them yields a critical issue.
C14_MandatoryEntriesCheckedOnBothSides ==
    xf.pc = "done"
    => \A s \in Sides :
         /\ ~HasEntryOfType(s, 129) => "missing_bitmap" \in Kinds(xf.issues)
         /\ ~HasEntryOfType(s, 130) => "missing_upcase" \in Kinds(xf.issues)
         /\ ~HasEntryOfType(s, 160) => "missing_volume_guid" \in Kinds(xf.issues)

\* the number of slots of root in front of the first slot that ends the
\* directory: a slot of type 0x00 or a slot cut short by the end of the medium
SlotsBeforeEnd(root) ==
    IF \E j \in 1..Len(root) : root[j].type = 0 \/ root[j].bytes < 32
    THEN (CHOOSE j \in 1..Len(root) :
            /\ root[j].type = 0 \/ root[j].bytes < 32
            /\ \A k \in 1..(j - 1) : root[k].type # 0 /\ root[k].bytes = 32) - 1
    ELSE Len(root)

\* the kind of entry a slot of the type decodes to
EntryKindOfType(type) ==
    CASE type = 131 -> "Volume Label"
      [] type = 129 -> "Bitmap"
      [] type = 130 -> "Upcase"
      [] type = 160 -> "Volume GUID"
      [] type = 133 -> "File Entry"
      [] OTHER -> "Entry type"

\* C21: root-directory decoding yields exactly one entry for every complete
\* slot in front of the first slot of type 0x00, at most 16, in slot order; a
\* slot of an unrecognized type yields an entry carrying the raw type byte and
\* the slots after it are decoded all the same.
C21_OneEntryPerSlotUnknownIncluded ==
    xf.pc \in {"issues", "done"}
    => \A s \in Sides :
         LET root == xf.vol[s].root
             n == IF SlotsBeforeEnd(root) < 16 THEN SlotsBeforeEnd(root) ELSE 16
         IN /\ Len(xf.entries[s]) = n
            /\ \A j \in 1..n :
                 /\ xf.entries[s][j][1] = EntryKindOfType(root[j].type)
                 /\ EntryKindOfType(root[j].type) = "Entry type"
                      => xf.entries[s][j][2] = root[j].type

\* a root directory whose first slot is of an unrecognized type was decoded,
\* and entries of the slots behind it exist
C21_Witness ==
    /\ xf.pc = "done"
    /\ xf.vol["A"].root[1].type = 192
    /\ Len(xf.entries["A"]) = 4
    /\ xf.entries["A"][1][1] = "Entry type"
    /\ xf.entries["A"][4][1] = "Volume GUID"

\* C22: the FAT diff compares entry i of side A's FAT with entry i of side
\* B's FAT for i = 0 .. 19, each side's entries read at that side's own decoded
\* fat_offset; index i is reported iff the two values differ.
C22_FatDiffUsesEachSidesOwnOffset ==
    xf.pc \in {"root", "issues", "done"}
    => xf.fat_diffs =
         {i \in 0..19 :
            FatEntryAt(xf.vol["A"], xf.fields["A"]["fat_offset"], i)
              # FatEntryAt(xf.vol["B"], xf.fields["B"]["fat_offset"], i)}

\* C23: a two-source comparison decodes the sides one after the other: all the
\* reads of side A are made before the first read of side B, so that in the
\* order of the reads no read of A follows a read of B.
C23_SideAReadsPrecedeSideBReads ==
    \A i \in 1..Len(xf.reads) :
        \A j \in (i + 1)..Len(xf.reads) :
            ~(xf.reads[i][1] = "B" /\ xf.reads[j][1] = "A")

\* C29: presence of a mandatory bookkeeping entry is determined by entry
\* type: the 'Missing Bitmap' / 'Missing Upcase' / 'Missing Volume GUID' issue
\* is raised iff the decoded root directory (of the first volume, the one the
\* issue list is built for) holds no entry of type 0x81 / 0x82 / 0xA0, whatever
\* the other entries contain.
C29_PresenceIsDecidedByEntryType ==
    xf.pc = "done"
    => /\ "missing_bitmap" \in Kinds(xf.issues) <=> ~HasEntryOfType("A", 129)
       /\ "missing_upcase" \in Kinds(xf.issues) <=> ~HasEntryOfType("A", 130)
       /\ "missing_volume_guid" \in Kinds(xf.issues) <=> ~HasEntryOfType("A", 160)

\* C20: a boot record whose boot signature is not 0xAA55 yields a critical
\* issue, and a boot record whose FAT count is not 1 or 2 yields a critical
\* issue, in the issue list produced for the volume (here the first volume,
\* the one compare_devices builds its issue list for).
C20_BadSignatureAndFatCountAreCritical ==
    xf.pc = "done"
    => /\ xf.fields["A"]["boot_signature"] # 43605
            => "invalid_boot_signature" \in Kinds(xf.issues)
       /\ xf.fields["A"]["num_fats"] \notin {1, 2}
            => "invalid_num_fats" \in Kinds(xf.issues)

(***************************************************************************)
(* Claims about the exFAT boot checksum (checked under SpecCk).            *)
(***************************************************************************)

\* The recurrence as specified: the accumulator is masked to 32 bits after
\* every byte step.
SpecifiedStep(acc, byte) ==
    IF WideOdd(acc)
    THEN WideMask32(WideAdd(WideAddTopBit(WideShr1(acc)), byte))
    ELSE WideMask32(WideAdd(WideShr1(acc), byte))

RECURSIVE SpecifiedChecksum(_, _)
\* the specified checksum of the first n bytes of region A
SpecifiedChecksum(c, n) ==
    IF n = 0 THEN WideZero
    ELSE IF (n - 1) \in VolumeFlagsAndPercentInUse THEN SpecifiedChecksum(c, n - 1)
    ELSE SpecifiedStep(SpecifiedChecksum(c, n - 1), RegionA(c, n - 1))

\* C1: for every input byte sequence the checksum calculate_checksum returns
\* equals the specified recurrence, masked to 32 bits after every byte step.
C1_ChecksumEqualsMaskedRecurrence ==
    ck.pc = "calculated" => ck.calcA = SpecifiedChecksum(ck, ck.len)

\* B is A with exactly one byte, at a checksummed offset, changed.
OneChecksummedByteChanged ==
    /\ Cardinality(ck.diff) = 1
    /\ ck.diff \cap VolumeFlagsAndPercentInUse = {}

\* C2: when sector 11 stores the checksum this algorithm produced for region A,
\* verification of A reports a match, and verification of a region that differs
\* from A in one single checksummed byte reports a mismatch.
C2_StoredMatchesAndByteChangeMismatches ==
    (ck.pc = "verified" /\ ck.sector11 = PackLE32(ck.calcA))
        => /\ ck.matchA
           /\ (OneChecksummedByteChanged => ~ck.matchB)

C2_Witness ==
    /\ ck.pc = "verified" /\ ck.len = MaxLen
    /\ ck.sector11 = PackLE32(ck.calcA)
    /\ OneChecksummedByteChanged
    /\ ck.matchA /\ ~ck.matchB
    /\ ck.calcA[1] >= W16 \div 2

\* C3: two regions of equal length that agree at every offset other than 106,
\* 107 and 112 yield the same checksum, a value in 0..2^32-1, whatever the bytes
\* at those three offsets are.
C3_ExcludedBytesDoNotInfluence ==
    ck.pc = "calculated"
        => /\ ck.calcA[1] < W16 /\ ck.calcB[1] < W16
           /\ (ck.diff \subseteq VolumeFlagsAndPercentInUse => ck.calcA = ck.calcB)

C3_Witness ==
    /\ ck.pc = "calculated" /\ ck.len = MaxLen
    /\ ck.diff = VolumeFlagsAndPercentInUse
    /\ \A p \in ck.diff : RegionA(ck, p) # RegionB(ck, p)
    /\ ck.calcA = ck.calcB

\* v <= 2^32 + 510, for the accumulator v held as <<hi, lo>>
AtMostTwoTo32Plus510(v) == v[1] < 65536 \/ (v[1] = 65536 /\ v[2] <= 510)

\* C28: the accumulator, left unmasked until after the last byte, stays
\* bounded: after every byte step it is at most 2^32 + 510, hence below 2^33,
\* and the final mask discards at most one overflow bit.
C28_AccumulatorStaysBounded ==
    ck.pc \in {"loop", "calculated", "verified"}
    => /\ AtMostTwoTo32Plus510(ck.accA)
       /\ AtMostTwoTo32Plus510(ck.accB)

\* after a byte step the unmasked accumulator is 2^32 or more
C28_Witness ==
    /\ ck.pc = "loop" /\ ck.i > 0
    /\ ck.accA[1] >= 65536

(***************************************************************************)
(* Claims about the Byte Source (checked under SpecRead).                  *)
(***************************************************************************)

\* every value in the cache of analyzer a is made of bytes of a's own medium
CacheHoldsOwnMedium(a) ==
    \A k \in DOMAIN bs.cache[a] : bs.cache[a][k].med \in {a, "none"}

\* a step of the byte sources: only the cache of the analyzer the read was
\* made on may change, by the key of that read at most, and a read answered
\* from a cache is answered from the cache of its own analyzer
CacheStepIsPrivate ==
    LET a == bs'.last.an
        key == <<bs'.last.offset, bs'.last.size>>
    IN /\ \A b \in Analyzers \ {a} : bs'.cache[b] = bs.cache[b]
       /\ DOMAIN bs'.cache[a] \subseteq (DOMAIN bs.cache[a]) \cup {key}
       /\ \A k \in DOMAIN bs.cache[a] : bs'.cache[a][k] = bs.cache[a][k]
       /\ bs'.last.cacheHit
            => key \in DOMAIN bs.cache[a] /\ bs'.last.data = bs.cache[a][key]

\* C24: the small-read cache is private to one Byte Source: after any
\* interleaving of reads on two analyzers over different media each cache
\* holds only keys read through its analyzer with values of its own medium,
\* and a read on one analyzer is never answered from, nor adds to, the cache
\* of the other.
C24_CacheIsPrivate ==
    /\ [](\A a \in Analyzers : CacheHoldsOwnMedium(a))
    /\ [][CacheStepIsPrivate]_vars

\* both analyzers were asked for the same (offset, size) and each cache holds
\* the key with the bytes of its own medium
C24_Witness ==
    /\ bs.n = 2
    /\ \E k \in (DOMAIN bs.cache["A"]) \cap (DOMAIN bs.cache["B"]) :
         /\ bs.cache["A"][k].med = "A"
         /\ bs.cache["B"][k].med = "B"

\* the last call was a sequential-emulated read (read_at of an analyzer in
\* sequential mode, or ext4_bg_compare's read_sequential) at an offset the
\* medium reaches
SequentialReadWithinMedium ==
    /\ \/ bs.last.fn = "bg_read_sequential"
       \/ bs.last.fn = "read_at" /\ bs.windows[bs.last.an]
    /\ bs.mlen[bs.last.an] >= bs.last.offset

RECURSIVE SumOf(_)
SumOf(q) == IF q = << >> THEN 0 ELSE q[1] + SumOf(Tail(q))

\* the last call replayed the medium from byte 0: one seek to 0,
\* ceil(offset / 65536) discard reads of at most 65536 bytes each that sum to
\* offset, then the data read at byte offset; the cache of the analyzer holds
\* results of data reads only, no discarded bytes
ReplayedFromByteZero ==
    LET c == bs.last
        a == bs.last.an
    IN /\ c.outcome = "returned" /\ c.reached
       /\ c.seeks = 1
       /\ Len(c.discards) = (c.offset + 65535) \div 65536
       /\ \A i \in 1..Len(c.discards) : c.discards[i] <= 65536
       /\ SumOf(c.discards) = c.offset
       /\ c.reads = Len(c.discards) + 1
       /\ c.data = Bytes(a, c.offset, Min(c.size, bs.mlen[a] - c.offset))
       /\ \A k \in DOMAIN bs.cache[a] :
            \/ bs.cache[a][k] = EmptyBytes
            \/ bs.cache[a][k].off = k[1] /\ bs.cache[a][k].len <= k[2]

\* C25 as stated: every sequential-emulated read at offset o on a medium
\* holding at least o bytes restarts at byte 0, performs exactly
\* ceil(o / 65536) discard reads of at most 65536 bytes that sum to o, retains
\* none of the discarded bytes, and then reads the data at byte o.
C25_EverySequentialReadReplays ==
    SequentialReadWithinMedium => ReplayedFromByteZero

\* C25, amended: every sequential-emulated read at offset o that is not
\* answered from the small-read cache, on a medium holding at least o bytes,
\* terminates after a restart at byte 0, exactly ceil(o / 65536) discard reads
\* of at most 65536 bytes that sum to o and are not retained, and the data read
\* at byte o.
C25_UncachedSequentialReadReplays ==
    (SequentialReadWithinMedium /\ ~bs.last.cacheHit) => ReplayedFromByteZero

\* a replay to offset 140000: three discard reads, the last one shorter
C25_Witness ==
    /\ SequentialReadWithinMedium /\ ~bs.last.cacheHit
    /\ bs.last.offset = 140000
    /\ bs.last.discards = <<65536, 65536, 8928>>
    /\ bs.last.data.len > 0

\* C27: over an unchanging medium, after any sequence of reads every cache
\* entry has a key (o, l) with l <= 4096 and its value is the bytes
\* medium[o : o+l] that a replay from byte 0 returns; a read that failed
\* because offset o could not be reached created no cache entry.
C27_CacheHoldsWhatAReplayReturns ==
    /\ \A a \in Analyzers :
         \A k \in DOMAIN bs.cache[a] :
            /\ k[2] <= 4096
            /\ k[1] <= bs.mlen[a]
            /\ bs.cache[a][k]
                 = (IF bs.mlen[a] - k[1] <= 0 THEN EmptyBytes
                    ELSE [med |-> a, off |-> k[1],
                          len |-> IF k[2] < bs.mlen[a] - k[1] THEN k[2]
                                  ELSE bs.mlen[a] - k[1]])
    /\ (bs.last.fn = "read_at" /\ ~bs.last.reached)
         => <<bs.last.offset, bs.last.size>> \notin DOMAIN bs.cache[bs.last.an]

\* an analyzer with a cached read failed to reach the offset of its next read,
\* of a size the cache takes, and its cache holds nothing for it
C27_Witness ==
    /\ bs.last.fn = "read_at" /\ ~bs.last.reached
    /\ bs.last.size <= 4096
    /\ bs.cache[bs.last.an] # << >>
    /\ <<bs.last.offset, bs.last.size>> \notin DOMAIN bs.cache[bs.last.an]

\* C4: a read either returns exactly `size` bytes or fails with an I/O error;
\* it never returns a shorter or empty byte string as a result (read_at in
\* either mode, and ext4_bg_compare's read_sequential).
C4_ReadReturnsAllOrFails ==
    bs.last.fn # "none"
        => (bs.last.outcome = "raised" \/ bs.last.data.len = bs.last.size)

\* C5: on a sequential-emulated source, the second of two reads at the same
\* (offset, size) with size <= 4096 returns the same bytes and is served from
\* the cache: no seek to byte 0, no read of the medium.
C5_SecondReadServedFromCache ==
    [][(/\ bs'.n = bs.n + 1
        /\ bs.last.fn = "read_at" /\ bs'.last.fn = "read_at"
        /\ bs'.last.an = bs.last.an /\ bs.windows[bs.last.an]
        /\ bs'.last.offset = bs.last.offset /\ bs'.last.size = bs.last.size
        /\ bs.last.size <= 4096)
       => (/\ bs'.last.data = bs.last.data
           /\ bs'.last.cacheHit
           /\ bs'.last.seeks = 0 /\ bs'.last.reads = 0)]_vars

====
